---- MODULE Spec2Model ----
(***************************************************************************)
(* Nearby-medicine search of the pharmacy finder: the medicines table and  *)
(* its expiry trigger, searchMedicines / logSearch / calculateDistance of  *)
(* lib/supabase.js, handleSearch of SearchPage.jsx, the inventory handlers *)
(* of InventoryManagement.jsx, the row-level security policies of the      *)
(* medicines table, and signing in through AuthPage and the auth store.    *)
(*                                                                         *)
(* Units: coordinates are tenths of a degree, distances and radii are      *)
(* kilometres, dates are day numbers.  Text is a sequence of one-character *)
(* strings.                                                                *)
(***************************************************************************)
EXTENDS Integers, Sequences, FiniteSets, TLC

VARIABLES
    medicines,          \* the medicines table, rows in the record store's order
    today,              \* CURRENT_DATE, a day number
    search_history,     \* the search_history table, rows in insertion order
    backendLog,         \* requests the record store has received
    call,               \* the last direct call of searchMedicines and its outcome
    userLocation,       \* locationStore.userLocation: <<>> (none) or <<lat, lng>>
    user,               \* authStore.user: NULL or a user id
    searchQuery,        \* SearchPage state
    radius,
    results,
    loading,
    searched,
    toast,              \* the last toast shown by the search page
    initialSearchDone,  \* SearchPage ref guarding the URL-triggered search
    reqs,               \* the invocations of handleSearch, in start order
    displayed,          \* index in reqs of the invocation whose results are shown (0: none)
    session,            \* authStore.session: NULL or the id of its user
    profile,            \* authStore.profile: "none" or the role it holds
    authLoading,        \* authStore.loading
    initialized,        \* authStore.initialized
    authError,          \* authStore.error: "none" or a message
    clientSession,      \* the session the supabase client holds: NULL or a user id
    selectedRole,       \* AuthPage state
    formError,          \* AuthPage error: "none" ('') or a message
    route,              \* the path last navigated to
    callbacks,          \* promise callbacks of the auth store that have not run yet
    storeId,            \* InventoryManagement: useParams().storeId, NULL or a store id
    pageStores,         \* InventoryManagement state: stores (their ids)
    selectedStore,      \* InventoryManagement state: NULL ('') or a store id
    pageMedicines,      \* InventoryManagement state: medicines
    tasks               \* requests of InventoryManagement that have not settled yet

dbVars == <<medicines, today, search_history, backendLog>>
authVars == <<session, profile, authLoading, initialized, authError, clientSession,
              selectedRole, formError, route, callbacks>>
inventoryVars == <<storeId, pageStores, selectedStore, pageMedicines, tasks>>
pageVars == <<userLocation, user, searchQuery, radius, results, loading, searched,
              toast, initialSearchDone, reqs, displayed, authVars, inventoryVars>>
vars == <<medicines, today, search_history, backendLog, call, userLocation, user,
          searchQuery, radius, results, loading, searched, toast,
          initialSearchDone, reqs, displayed, session, profile, authLoading,
          initialized, authError, clientSession, selectedRole, formError, route,
          callbacks, storeId, pageStores, selectedStore, pageMedicines, tasks>>

----------------------------------------------------------------------------
(* Bounds of the model *)

MaxMeds == 2        \* rows of the medicines table
MaxDay == 2         \* last day number
MaxReqs == 2        \* invocations of handleSearch on one page

----------------------------------------------------------------------------
(* JavaScript / SQL values *)

\* null / undefined of a numeric field
NULL == -999

\* NULL of a text column
NOTEXT == <<"NULL">>

\* JavaScript truthiness of a number-or-null: null, undefined and 0 are falsy
Truthy(x) == x # NULL /\ x # 0

\* a.distance_km || 9999
OrElse(x, d) == IF Truthy(x) THEN x ELSE d

Lower(c) == IF c = "A" THEN "a" ELSE IF c = "B" THEN "b" ELSE c

LowerText(t) == [i \in 1..Len(t) |-> Lower(t[i])]

\* String.prototype.trim(): leading and trailing blanks removed
RECURSIVE TrimLeft(_)
TrimLeft(t) == IF t # <<>> /\ Head(t) = " " THEN TrimLeft(Tail(t)) ELSE t

RECURSIVE TrimRight(_)
TrimRight(t) ==
    IF t # <<>> /\ t[Len(t)] = " " THEN TrimRight(SubSeq(t, 1, Len(t) - 1)) ELSE t

Trim(t) == TrimRight(TrimLeft(t))

\* searchTerm && searchTerm.trim()  /  !query.trim()
NonBlank(t) == t # NOTEXT /\ t # <<>> /\ Trim(t) # <<>>

\* text ILIKE pattern: % stands for any run of characters, _ for any one
\* character, every other character for itself in either case
RECURSIVE LikeMatch(_, _)
LikeMatch(text, pattern) ==
    IF pattern = <<>> THEN text = <<>>
    ELSE IF Head(pattern) = "%"
         THEN \/ LikeMatch(text, Tail(pattern))
              \/ text # <<>> /\ LikeMatch(Tail(text), pattern)
         ELSE /\ text # <<>>
              /\ Head(pattern) = "_" \/ Lower(Head(pattern)) = Lower(Head(text))
              /\ LikeMatch(Tail(text), Tail(pattern))

\* column.ilike.%term%: the term is pasted into the pattern as typed; false on
\* NULL
Ilike(field, term) ==
    /\ field # NOTEXT
    /\ LikeMatch(field, <<"%">> \o term \o <<"%">>)

----------------------------------------------------------------------------
(* The stores table.  Store 1 and 2 are 11 km apart; store 3 and 4 lie on   *)
(* the equator (latitude 0); store 5 was saved with latitude 95.0, which    *)
(* the column DECIMAL(10, 8) NOT NULL accepts although no such place exists.*)

stores ==
    [s \in 1..5 |->
        CASE s = 1 -> [id |-> 1, owner_id |-> 1, latitude |-> 10, longitude |-> 10]
          [] s = 2 -> [id |-> 2, owner_id |-> 1, latitude |-> 10, longitude |-> 11]
          [] s = 3 -> [id |-> 3, owner_id |-> 2, latitude |-> 0,  longitude |-> 1]
          [] s = 4 -> [id |-> 4, owner_id |-> 2, latitude |-> 0,  longitude |-> 10]
          [] s = 5 -> [id |-> 5, owner_id |-> 2, latitude |-> 950, longitude |-> 10]]

StoreIds == DOMAIN stores

\* the stores whose coordinates are a place on Earth
LocatedStores == {1, 2, 3, 4}

\* The points of the model's grid: the store locations and the other corners
GridPoints == {<<0, 0>>, <<0, 1>>, <<0, 10>>, <<10, 0>>, <<10, 10>>, <<10, 11>>}

\* The haversine distance of calculateDistance (R = 6371 km), evaluated at the
\* points of the model's grid and rounded to whole kilometres.
HaversineKm ==
    [p \in {<<q[1], q[2], stores[s].latitude, stores[s].longitude>> :
                q \in GridPoints, s \in StoreIds} |->
        CASE p = <<0, 0, 10, 10>>   -> 157
          [] p = <<0, 0, 10, 11>>   -> 165
          [] p = <<0, 0, 0, 1>>     -> 11
          [] p = <<0, 0, 0, 10>>    -> 111
          [] p = <<0, 10, 10, 10>>  -> 111
          [] p = <<0, 10, 10, 11>>  -> 112
          [] p = <<0, 10, 0, 1>>    -> 100
          [] p = <<0, 10, 0, 10>>   -> 0
          [] p = <<10, 0, 10, 10>>  -> 111
          [] p = <<10, 0, 10, 11>>  -> 122
          [] p = <<10, 0, 0, 1>>    -> 112
          [] p = <<10, 0, 0, 10>>   -> 157
          [] p = <<10, 10, 10, 10>> -> 0
          [] p = <<10, 10, 10, 11>> -> 11
          [] p = <<10, 10, 0, 1>>   -> 150
          [] p = <<10, 10, 0, 10>>  -> 111
          [] p = <<0, 1, 10, 10>>   -> 150
          [] p = <<0, 1, 10, 11>>   -> 157
          [] p = <<0, 1, 0, 1>>     -> 0
          [] p = <<0, 1, 0, 10>>    -> 100
          [] p = <<10, 11, 10, 10>> -> 11
          [] p = <<10, 11, 10, 11>> -> 0
          [] p = <<10, 11, 0, 1>>   -> 157
          [] p = <<10, 11, 0, 10>>  -> 112
          [] p = <<0, 0, 950, 10>>   -> 10563
          [] p = <<0, 1, 950, 10>>   -> 10563
          [] p = <<0, 10, 950, 10>>  -> 10564
          [] p = <<10, 0, 950, 10>>  -> 10452
          [] p = <<10, 10, 950, 10>> -> 10452
          [] p = <<10, 11, 950, 10>> -> 10452]

calculateDistance(lat1, lon1, lat2, lon2) == HaversineKm[<<lat1, lon1, lat2, lon2>>]

\* distance_km of a candidate without usable coordinates
SentinelKm == 9999

----------------------------------------------------------------------------
(* The record store's read of searchMedicines *)

QueryFilterNoQuantity(m) == m.is_available

\* .eq('is_available', true).gt('quantity', 0)
QueryFilter(m) == m.is_available /\ m.quantity > 0

\* .or(name.ilike.%term%, generic_name.ilike.%term%, manufacturer.ilike.%term%),
\* added to the query only when the term is not blank
TextFilter(m, searchTerm) ==
    NonBlank(searchTerm) =>
        \/ Ilike(m.name, searchTerm)
        \/ Ilike(m.generic_name, searchTerm)
        \/ Ilike(m.manufacturer, searchTerm)

\* A row as the query selects it; distance_km is not set yet (undefined)
Item(m) ==
    [id |-> m.id, store_id |-> m.store_id, name |-> m.name,
     generic_name |-> m.generic_name, manufacturer |-> m.manufacturer,
     quantity |-> m.quantity, is_available |-> m.is_available,
     expiry_date |-> m.expiry_date, distance_km |-> NULL]

RECURSIVE SelectRows(_, _)
SelectRows(rows, searchTerm) ==
    IF rows = <<>> THEN <<>>
    ELSE LET m == Head(rows)
             rest == SelectRows(Tail(rows), searchTerm)
         IN IF QueryFilter(m) /\ TextFilter(m, searchTerm)
            THEN <<Item(m)>> \o rest
            ELSE rest

\* What the awaited query resolves to: {data, error}
QueryResponse(rows, searchTerm, resp) ==
    CASE resp = "error"  -> [error |-> TRUE,  hasData |-> FALSE, data |-> <<>>]
      [] resp = "nodata" -> [error |-> FALSE, hasData |-> FALSE, data |-> <<>>]
      [] OTHER           -> [error |-> FALSE, hasData |-> TRUE,
                             data |-> SelectRows(rows, searchTerm)]

----------------------------------------------------------------------------
(* searchMedicines *)

\* if (lat && lng && results.length > 0)
HasOrigin(lat, lng) == Truthy(lat) /\ Truthy(lng)

\* if (item.stores?.latitude && item.stores?.longitude)
HasCoordinates(item) ==
    Truthy(stores[item.store_id].latitude) /\ Truthy(stores[item.store_id].longitude)

\* results.map(item => ...): each candidate gets its distance_km
WithDistance(item, lat, lng) ==
    IF HasCoordinates(item)
    THEN [item EXCEPT !.distance_km =
              calculateDistance(lat, lng, stores[item.store_id].latitude,
                                stores[item.store_id].longitude)]
    ELSE [item EXCEPT !.distance_km = SentinelKm]

\* results.filter(item => item.distance_km <= radius)
WithinRadius(item, r) == item.distance_km <= r

RECURSIVE FilterByRadius(_, _)
FilterByRadius(items, r) ==
    IF items = <<>> THEN <<>>
    ELSE IF WithinRadius(Head(items), r)
         THEN <<Head(items)>> \o FilterByRadius(Tail(items), r)
         ELSE FilterByRadius(Tail(items), r)

\* the comparator of results.sort: (a.distance_km || 9999) - (b.distance_km || 9999)
Compare(a, b) == OrElse(a.distance_km, SentinelKm) - OrElse(b.distance_km, SentinelKm)

RECURSIVE InsertSortedUnstable(_, _)
InsertSortedUnstable(x, sorted) ==
    IF sorted = <<>> THEN <<x>>
    ELSE IF Compare(x, Head(sorted)) <= 0
         THEN <<x>> \o sorted
         ELSE <<Head(sorted)>> \o InsertSortedUnstable(x, Tail(sorted))

\* Array.prototype.sort is stable: x goes after every element it does not precede
RECURSIVE InsertSorted(_, _)
InsertSorted(x, sorted) ==
    IF sorted = <<>> THEN <<x>>
    ELSE IF Compare(x, Head(sorted)) < 0
         THEN <<x>> \o sorted
         ELSE <<Head(sorted)>> \o InsertSorted(x, Tail(sorted))

RECURSIVE SortByDistance(_)
SortByDistance(items) ==
    IF items = <<>> THEN <<>>
    ELSE LET n == Len(items)
         IN InsertSorted(items[n], SortByDistance(SubSeq(items, 1, n - 1)))

RankResultsNoneWithoutOrigin(items, lat, lng, r) ==
    IF HasOrigin(lat, lng) /\ Len(items) > 0
    THEN SortByDistance(
             FilterByRadius([i \in 1..Len(items) |-> WithDistance(items[i], lat, lng)], r))
    ELSE <<>>

\* lines 214-241: distances, radius filter and sort, only with an origin
RankResults(items, lat, lng, r) ==
    IF HasOrigin(lat, lng) /\ Len(items) > 0
    THEN SortByDistance(
             FilterByRadius([i \in 1..Len(items) |-> WithDistance(items[i], lat, lng)], r))
    ELSE items

\* let results = data || []
DataOrEmpty(response) == IF response.hasData THEN response.data ELSE <<>>

\* The outcome of searchMedicines(searchTerm, lat, lng, radius) when the record
\* store answers `response`: it returns a list or throws.
searchMedicines(searchTerm, lat, lng, r, response) ==
    IF response.error
    THEN [kind |-> "throw", results |-> <<>>]
    ELSE [kind |-> "return",
          results |-> RankResults(DataOrEmpty(response), lat, lng, r)]

----------------------------------------------------------------------------
(* Initial values *)

\* A row of the medicines table
Row(i, s, n, g, mf, q, a, e) ==
    [id |-> i, store_id |-> s, name |-> n, generic_name |-> g, manufacturer |-> mf,
     quantity |-> q, is_available |-> a, expiry_date |-> e]

NoCall == [pc |-> "idle"]

NoToast == "none"

\* userLocation before the location is known (null)
NoLocation == <<>>

\* the profiles table: the role each account was registered under, which
\* signUp also writes to the user's metadata
profiles == [u \in 1..3 |-> IF u = 3 THEN "customer" ELSE "retailer"]

\* no role: expectedRole = null, profile = null
NoRole == "none"

\* no message: error = null, error = ''
NoError == "none"

\* the auth store and the supabase client once initialize has settled for the
\* user of the page, the sign-in form untouched
AuthSettled ==
    /\ session = user
    /\ clientSession = user
    /\ profile = (IF user = NULL THEN NoRole ELSE profiles[user])
    /\ authLoading = FALSE
    /\ initialized = TRUE
    /\ authError = NoError
    /\ selectedRole = "customer"
    /\ formError = NoError
    /\ route = "/search"
    /\ callbacks = {}

\* SearchPage as first rendered: the useState / useRef initial values
PageFirstRender ==
    /\ userLocation = NoLocation
    /\ searchQuery = <<>>
    /\ radius = 10
    /\ results = <<>>
    /\ loading = FALSE
    /\ searched = FALSE
    /\ toast = NoToast
    /\ initialSearchDone = FALSE
    /\ reqs = <<>>
    /\ displayed = 0

\* InventoryManagement is not mounted
InventoryClosed ==
    /\ storeId = NULL
    /\ pageStores = {}
    /\ selectedStore = NULL
    /\ pageMedicines = <<>>
    /\ tasks = {}

InitPage == PageFirstRender /\ AuthSettled /\ InventoryClosed

----------------------------------------------------------------------------
(* Direct calls of searchMedicines over every small medicines table *)

SearchTerms == {<<>>, <<" ">>, <<"a">>}

\* origins a caller can pass: none, or a point of the grid
Origins == {<<NULL, NULL>>, <<0, 0>>, <<10, 10>>}

Radii == {-1, 0, 10, 50, 10000}

Responses == {"ok", "error", "nodata"}

\* quantity and is_available of a row: in stock, out of stock, switched off
StockLevels == {<<1, TRUE>>, <<0, TRUE>>, <<1, FALSE>>}

SearchProtoRows ==
    {Row(0, s, n, NOTEXT, NOTEXT, st[1], st[2], NULL) :
        s \in LocatedStores, n \in {<<"A", "b">>, <<"b">>}, st \in StockLevels}

\* tables of n rows, ids in table order
TablesOver(protos, n) ==
    {[i \in 1..n |-> [f[i] EXCEPT !.id = i]] : f \in [1..n -> protos]}

InitSearch ==
    /\ \E n \in 0..MaxMeds : medicines \in TablesOver(SearchProtoRows, n)
    /\ today = 0
    /\ search_history = <<>>
    /\ backendLog = {}
    /\ call = NoCall
    /\ user = NULL
    /\ InitPage

\* searchMedicines(term, lat, lng, r), the record store answering resp
SearchCall(term, lat, lng, r, resp) ==
    /\ call.pc = "idle"
    /\ LET response == QueryResponse(medicines, term, resp)
           out == searchMedicines(term, lat, lng, r, response)
       IN call' = [pc |-> "done", searchTerm |-> term, lat |-> lat, lng |-> lng,
                   radius |-> r, resp |-> resp, day |-> today, kind |-> out.kind,
                   results |-> out.results]
    /\ backendLog' = backendLog \cup {[op |-> "select medicines", term |-> term]}
    /\ UNCHANGED <<medicines, today, search_history>>
    /\ UNCHANGED pageVars

NextSearch ==
    \E term \in SearchTerms, o \in Origins, r \in Radii, resp \in Responses :
        SearchCall(term, o[1], o[2], r, resp)

SpecSearch == InitSearch /\ [][NextSearch]_vars

----------------------------------------------------------------------------
(* Direct calls of searchMedicines over stores with and without a place on  *)
(* Earth: store 1 and store 5                                               *)

CoordinateRadii == {10, 20000}

CoordinateProtoRows ==
    {Row(0, s, <<"b">>, NOTEXT, NOTEXT, st[1], st[2], NULL) :
        s \in {1, 5}, st \in StockLevels}

InitCoordinates ==
    /\ \E n \in 0..MaxMeds : medicines \in TablesOver(CoordinateProtoRows, n)
    /\ today = 0
    /\ search_history = <<>>
    /\ backendLog = {}
    /\ call = NoCall
    /\ user = NULL
    /\ InitPage

NextCoordinates ==
    \E o \in Origins, r \in CoordinateRadii, resp \in Responses :
        SearchCall(<<>>, o[1], o[2], r, resp)

SpecCoordinates == InitCoordinates /\ [][NextCoordinates]_vars

----------------------------------------------------------------------------
(* Direct calls of searchMedicines over medicines that differ in their     *)
(* three searched columns, all at store 1, searched from store 1           *)

TextTerms == {<<"a">>, <<"B">>, <<"a", "b">>, <<"b", "a">>, <<" ", "a">>, <<"_">>, <<"%">>}

TextProtoRows ==
    {Row(0, 1, n, g, mf, 1, TRUE, NULL) :
        n \in {<<"A", "b">>, <<"b">>},
        g \in {NOTEXT, <<"a">>},
        mf \in {NOTEXT, <<"B", "a">>}}

InitText ==
    /\ \E n \in 0..MaxMeds : medicines \in TablesOver(TextProtoRows, n)
    /\ today = 0
    /\ search_history = <<>>
    /\ backendLog = {}
    /\ call = NoCall
    /\ user = NULL
    /\ InitPage

NextText ==
    \E t \in TextTerms, resp \in {"ok", "error"} : SearchCall(t, 10, 10, 10, resp)

SpecText == InitText /\ [][NextText]_vars

----------------------------------------------------------------------------
(* The medicines table under the inventory page's writes, the expiry       *)
(* trigger, the expiry sweep and the passage of days                       *)

\* a table without the trigger check_medicine_expiry
NoExpiryTrigger(new, currentDate) == new

\* mark_expired_medicines_unavailable, run by the trigger check_medicine_expiry
\* BEFORE INSERT OR UPDATE: NEW.expiry_date < CURRENT_DATE is not true of a
\* NULL date.
mark_expired_medicines_unavailable(new, currentDate) ==
    IF new.expiry_date # NULL /\ new.expiry_date < currentDate /\ new.is_available
    THEN [new EXCEPT !.is_available = FALSE]
    ELSE new

\* an id no row of the table has (uuid_generate_v4)
FreshId(rows) == CHOOSE i \in 1..(Len(rows) + 1) : \A k \in 1..Len(rows) : rows[k].id # i

\* values the inventory form can submit for the modelled columns
FormStores == {1, 3}

FormQuantities == {1}

FormExpiryDates == {NULL} \cup 0..MaxDay

\* handleSubmit without editingMedicine: supabase.from('medicines').insert(medicineData)
InsertMedicine(s, q, a, e) ==
    /\ call.pc = "idle"
    /\ Len(medicines) < MaxMeds
    /\ medicines' = Append(medicines,
                           mark_expired_medicines_unavailable(
                               Row(FreshId(medicines), s, <<"A", "b">>, NOTEXT, NOTEXT, q, a, e),
                               today))
    /\ UNCHANGED <<today, search_history, backendLog, call>>
    /\ UNCHANGED pageVars

\* handleSubmit with editingMedicine: .update(medicineData).eq('id', editingMedicine.id)
UpdateMedicine(k, q, a, e) ==
    /\ call.pc = "idle"
    /\ k \in 1..Len(medicines)
    /\ medicines' = [medicines EXCEPT ![k] =
                        mark_expired_medicines_unavailable(
                            [@ EXCEPT !.quantity = q, !.is_available = a, !.expiry_date = e],
                            today)]
    /\ UNCHANGED <<today, search_history, backendLog, call>>
    /\ UNCHANGED pageVars

\* toggleAvailability(medicine): .update({ is_available: !medicine.is_available }),
\* medicine being the page's copy of the row
toggleAvailability(k, shownAvailable) ==
    /\ call.pc = "idle"
    /\ k \in 1..Len(medicines)
    /\ medicines' = [medicines EXCEPT ![k] =
                        mark_expired_medicines_unavailable(
                            [@ EXCEPT !.is_available = ~shownAvailable], today)]
    /\ UNCHANGED <<today, search_history, backendLog, call>>
    /\ UNCHANGED pageVars

\* handleDelete(medicineId), confirmed
handleDelete(k) ==
    /\ call.pc = "idle"
    /\ k \in 1..Len(medicines)
    /\ medicines' = [i \in 1..(Len(medicines) - 1) |->
                        IF i < k THEN medicines[i] ELSE medicines[i + 1]]
    /\ UNCHANGED <<today, search_history, backendLog, call>>
    /\ UNCHANGED pageVars

\* .eq('store_id', selectedStore).lt('expiry_date', today)
ExpiredAt(m, s, day) == m.store_id = s /\ m.expiry_date # NULL /\ m.expiry_date < day

\* .delete().eq('store_id', selectedStore).lt('expiry_date', today)
RECURSIVE DeleteExpired(_, _, _)
DeleteExpired(rows, s, day) ==
    IF rows = <<>> THEN <<>>
    ELSE IF ExpiredAt(Head(rows), s, day)
         THEN DeleteExpired(Tail(rows), s, day)
         ELSE <<Head(rows)>> \o DeleteExpired(Tail(rows), s, day)

\* removeExpiredMedicines for the selected store s, both requests succeeding
removeExpiredMedicines(s) ==
    /\ call.pc = "idle"
    /\ \E k \in 1..Len(medicines) : ExpiredAt(medicines[k], s, today)
    /\ medicines' = DeleteExpired(medicines, s, today)
    /\ UNCHANGED <<today, search_history, backendLog, call>>
    /\ UNCHANGED pageVars

\* midnight passes
NextDay ==
    /\ call.pc = "idle"
    /\ today < MaxDay
    /\ today' = today + 1
    /\ UNCHANGED <<medicines, search_history, backendLog, call>>
    /\ UNCHANGED pageVars

InitInventory ==
    /\ medicines = <<>>
    /\ today = 0
    /\ search_history = <<>>
    /\ backendLog = {}
    /\ call = NoCall
    /\ user = NULL
    /\ InitPage

NextInventory ==
    \/ \E s \in FormStores, q \in FormQuantities, a \in BOOLEAN, e \in FormExpiryDates :
          InsertMedicine(s, q, a, e)
    \/ \E k \in 1..MaxMeds, q \in FormQuantities, a \in BOOLEAN, e \in FormExpiryDates :
          UpdateMedicine(k, q, a, e)
    \/ \E k \in 1..MaxMeds, b \in BOOLEAN : toggleAvailability(k, b)
    \/ \E k \in 1..MaxMeds : handleDelete(k)
    \/ \E s \in FormStores : removeExpiredMedicines(s)
    \/ NextDay
    \/ \E o \in {<<10, 10>>, <<0, 0>>} : SearchCall(<<"a">>, o[1], o[2], 50, "ok")

SpecInventory == InitInventory /\ [][NextInventory]_vars

----------------------------------------------------------------------------
(* Writes to the medicines table as the record store admits them: the      *)
(* statements of any client under the row-level security policies, and the *)
(* function cleanup_expired_medicines.  call records the last request: its *)
(* kind and the auth.uid() of the client (NULL for a client not signed in). *)

Clients == {NULL, 1, 2}

\* EXISTS (SELECT 1 FROM stores WHERE stores.id = store_id
\*                               AND stores.owner_id = auth.uid())
OwnsStore(uid, store_id) ==
    \E s \in StoreIds :
        stores[s].id = store_id /\ uid # NULL /\ stores[s].owner_id = uid

PolicyStores == {1, 3}

PolicyQuantities == {1, 2}

PolicyExpiryDates == {NULL, 0}

Request(op, uid) == [pc |-> "idle", op |-> op, uid |-> uid]

\* INSERT INTO medicines: "Store owners can insert medicines" WITH CHECK on the
\* new row; a row that fails the check is refused
SqlInsert(uid, s, e) ==
    /\ Len(medicines) < MaxMeds
    /\ LET new == mark_expired_medicines_unavailable(
                      Row(FreshId(medicines), s, <<"b">>, NOTEXT, NOTEXT, 1, TRUE, e),
                      today)
       IN medicines' = IF OwnsStore(uid, new.store_id)
                       THEN Append(medicines, new)
                       ELSE medicines
    /\ call' = Request("INSERT", uid)
    /\ UNCHANGED <<today, search_history, backendLog>>
    /\ UNCHANGED pageVars

\* UPDATE medicines SET store_id = s, quantity = q WHERE id = (row k):
\* "Store owners can update medicines" USING on the old row; with no WITH CHECK
\* given, the same expression is checked on the new row
SqlUpdate(uid, k, s, q) ==
    /\ k \in 1..Len(medicines)
    /\ LET new == mark_expired_medicines_unavailable(
                      [medicines[k] EXCEPT !.store_id = s, !.quantity = q], today)
       IN medicines' = IF /\ OwnsStore(uid, medicines[k].store_id)
                          /\ OwnsStore(uid, new.store_id)
                       THEN [medicines EXCEPT ![k] = new]
                       ELSE medicines
    /\ call' = Request("UPDATE", uid)
    /\ UNCHANGED <<today, search_history, backendLog>>
    /\ UNCHANGED pageVars

\* DELETE FROM medicines WHERE id = (row k): "Store owners can delete medicines"
\* USING on the row
SqlDelete(uid, k) ==
    /\ k \in 1..Len(medicines)
    /\ medicines' = IF OwnsStore(uid, medicines[k].store_id)
                    THEN [i \in 1..(Len(medicines) - 1) |->
                             IF i < k THEN medicines[i] ELSE medicines[i + 1]]
                    ELSE medicines
    /\ call' = Request("DELETE", uid)
    /\ UNCHANGED <<today, search_history, backendLog>>
    /\ UNCHANGED pageVars

\* DELETE FROM medicines WHERE expiry_date < CURRENT_DATE AND expiry_date IS NOT NULL
RECURSIVE DeleteAllExpired(_, _)
DeleteAllExpired(rows, day) ==
    IF rows = <<>> THEN <<>>
    ELSE IF Head(rows).expiry_date # NULL /\ Head(rows).expiry_date < day
         THEN DeleteAllExpired(Tail(rows), day)
         ELSE <<Head(rows)>> \o DeleteAllExpired(Tail(rows), day)

\* cleanup_expired_medicines(), a SECURITY DEFINER function of schema public:
\* it runs with its owner's rights, past the policies, for whoever calls it,
\* and the script takes EXECUTE from nobody
cleanup_expired_medicines(uid) ==
    /\ medicines' = DeleteAllExpired(medicines, today)
    /\ call' = Request("cleanup_expired_medicines", uid)
    /\ UNCHANGED <<today, search_history, backendLog>>
    /\ UNCHANGED pageVars

InitPolicies ==
    /\ medicines = <<>>
    /\ today = 0
    /\ search_history = <<>>
    /\ backendLog = {}
    /\ call = NoCall
    /\ user = NULL
    /\ InitPage

NextPolicies ==
    \/ \E uid \in Clients, s \in PolicyStores, e \in PolicyExpiryDates : SqlInsert(uid, s, e)
    \/ \E uid \in Clients, k \in 1..MaxMeds, s \in PolicyStores, q \in PolicyQuantities :
          SqlUpdate(uid, k, s, q)
    \/ \E uid \in Clients, k \in 1..MaxMeds : SqlDelete(uid, k)
    \/ \E uid \in Clients : cleanup_expired_medicines(uid)
    \/ NextDay

SpecPolicies == InitPolicies /\ [][NextPolicies]_vars

----------------------------------------------------------------------------
(* logSearch *)

logSearchRethrows(userId, outcome) ==
    IF userId = NULL
    THEN [kind |-> "return", inserted |-> FALSE]
    ELSE [kind |-> (IF outcome = "ok" THEN "return" ELSE "throw"),
          inserted |-> (outcome = "ok")]

\* logSearch without its check of userId
logSearchUnguarded(userId, outcome) ==
    [kind |-> "return", inserted |-> (outcome = "ok")]

\* logSearch(userId, ...) when the insert ends as outcome ("ok", "error": the
\* record store reports an error, "exception": the request throws).  Without a
\* user id no insert is made.  It returns in every case.
logSearch(userId, outcome) ==
    IF userId = NULL
    THEN [kind |-> "return", inserted |-> FALSE]
    ELSE [kind |-> "return", inserted |-> (outcome = "ok")]

----------------------------------------------------------------------------
(* SearchPage: handleSearch and what starts it.  Each invocation of        *)
(* handleSearch is an entry of reqs; it is suspended at                    *)
(*   "anim"  await controls.start(...)                                     *)
(*   "fetch" await searchMedicines(...)                                    *)
(*   "log"   await logSearch(...)                                          *)
(* and "done" after its finally block.                                     *)

PageQueries == {<<" ">>, <<"a">>, <<"b">>}

\* searchSuggestions
Suggestions == {<<"a">>, <<"b">>}

LogOutcomes == {"ok", "error", "exception"}

QueryRejectedOnlyIfEmpty(query) == query = <<>>

\* if (!query.trim()): the query is rejected
QueryRejected(query) == ~NonBlank(query)

\* handleSearch(e, queryOverride) up to its first await, the closure holding
\* searchQuery, userLocation, radius and user
handleSearchStart(queryOverride) ==
    LET query == IF queryOverride # NOTEXT /\ queryOverride # <<>>
                 THEN queryOverride ELSE searchQuery
    IN IF QueryRejected(query)
       THEN /\ toast' = "Please enter a medicine name"
            /\ UNCHANGED reqs
       ELSE IF userLocation = NoLocation
       THEN /\ toast' = "Please enable location access"
            /\ UNCHANGED reqs
       ELSE /\ reqs' = Append(reqs, [pc |-> "anim", query |-> query,
                                    lat |-> userLocation[1], lng |-> userLocation[2],
                                    radius |-> radius, user |-> user,
                                    fetched |-> <<>>, log |-> "none",
                                    reported |-> "none"])
            /\ UNCHANGED toast

\* getUserLocation resolves, or its failure sets the fallback location
LocationResolved(p) ==
    /\ userLocation = NoLocation
    /\ userLocation' = p
    /\ UNCHANGED <<searchQuery, radius, results, loading, searched, toast,
                   initialSearchDone, reqs, displayed, user>>
    /\ UNCHANGED <<dbVars, call, authVars, inventoryVars>>

\* onChange of the search input
TypeQuery(q) ==
    /\ searchQuery' = q
    /\ UNCHANGED <<userLocation, radius, results, loading, searched, toast,
                   initialSearchDone, reqs, displayed, user>>
    /\ UNCHANGED <<dbVars, call, authVars, inventoryVars>>

\* onSubmit of the form; the submit button is disabled while loading
SubmitForm ==
    /\ ~loading
    /\ Len(reqs) < MaxReqs
    /\ handleSearchStart(NOTEXT)
    /\ UNCHANGED <<userLocation, searchQuery, radius, results, loading, searched,
                   initialSearchDone, displayed, user>>
    /\ UNCHANGED <<dbVars, call, authVars, inventoryVars>>

\* handleSuggestionClick; the suggestions are rendered only while !searched
handleSuggestionClick(suggestion) ==
    /\ ~searched
    /\ Len(reqs) < MaxReqs
    /\ searchQuery' = suggestion
    /\ handleSearchStart(suggestion)
    /\ UNCHANGED <<userLocation, radius, results, loading, searched,
                   initialSearchDone, displayed, user>>
    /\ UNCHANGED <<dbVars, call, authVars, inventoryVars>>

\* the effect on the URL's q parameter and its timer: handleSearch(null, queryFromUrl)
UrlSearch(queryFromUrl) ==
    /\ ~initialSearchDone
    /\ userLocation # NoLocation
    /\ Len(reqs) < MaxReqs
    /\ initialSearchDone' = TRUE
    /\ searchQuery' = queryFromUrl
    /\ handleSearchStart(queryFromUrl)
    /\ UNCHANGED <<userLocation, radius, results, loading, searched, displayed, user>>
    /\ UNCHANGED <<dbVars, call, authVars, inventoryVars>>

\* controls.start resolves: lines 191-203, the query of searchMedicines is sent
AnimationDone(i) ==
    /\ i \in 1..Len(reqs)
    /\ reqs[i].pc = "anim"
    /\ loading' = TRUE
    /\ searched' = TRUE
    /\ reqs' = [reqs EXCEPT ![i].pc = "fetch"]
    /\ backendLog' = backendLog \cup {[op |-> "select medicines", term |-> reqs[i].query]}
    /\ UNCHANGED <<userLocation, searchQuery, radius, results, toast,
                   initialSearchDone, displayed, user>>
    /\ UNCHANGED <<medicines, today, search_history, call, authVars, inventoryVars>>

\* toast after a search that returned n results
ResultToast(n) == IF n = 0 THEN "No medicines found nearby" ELSE "Found"

\* SearchSettles with a catch block that also empties the results
SearchSettlesClearing(i, resp) ==
    /\ i \in 1..Len(reqs)
    /\ reqs[i].pc = "fetch"
    /\ LET r == reqs[i]
           out == searchMedicines(r.query, r.lat, r.lng, r.radius,
                                  QueryResponse(medicines, r.query, resp))
       IN IF out.kind = "throw"
          THEN /\ toast' = "Search failed"
               /\ loading' = FALSE
               /\ results' = <<>>
               /\ reqs' = [reqs EXCEPT ![i].pc = "done", ![i].reported = "failed"]
               /\ UNCHANGED <<displayed, backendLog>>
          ELSE /\ results' = out.results
               /\ displayed' = i
               /\ IF r.user # NULL
                  THEN /\ reqs' = [reqs EXCEPT ![i].pc = "log", ![i].fetched = out.results]
                       /\ backendLog' = backendLog \cup
                              {[op |-> "insert search_history", term |-> r.query]}
                       /\ UNCHANGED <<toast, loading>>
                  ELSE /\ reqs' = [reqs EXCEPT ![i].pc = "done",
                                               ![i].fetched = out.results,
                                               ![i].reported = "ok"]
                       /\ toast' = ResultToast(Len(out.results))
                       /\ loading' = FALSE
                       /\ UNCHANGED backendLog
    /\ UNCHANGED <<userLocation, searchQuery, radius, searched, initialSearchDone, user>>
    /\ UNCHANGED <<medicines, today, search_history, call, authVars, inventoryVars>>

\* searchMedicines settles: lines 205-207 (and 217-228 without user), or the
\* catch and finally blocks
SearchSettles(i, resp) ==
    /\ i \in 1..Len(reqs)
    /\ reqs[i].pc = "fetch"
    /\ LET r == reqs[i]
           out == searchMedicines(r.query, r.lat, r.lng, r.radius,
                                  QueryResponse(medicines, r.query, resp))
       IN IF out.kind = "throw"
          THEN /\ toast' = "Search failed"
               /\ loading' = FALSE
               /\ reqs' = [reqs EXCEPT ![i].pc = "done", ![i].reported = "failed"]
               /\ UNCHANGED <<results, displayed, backendLog>>
          ELSE /\ results' = out.results
               /\ displayed' = i
               /\ IF r.user # NULL
                  THEN /\ reqs' = [reqs EXCEPT ![i].pc = "log", ![i].fetched = out.results]
                       /\ backendLog' = backendLog \cup
                              {[op |-> "insert search_history", term |-> r.query]}
                       /\ UNCHANGED <<toast, loading>>
                  ELSE /\ reqs' = [reqs EXCEPT ![i].pc = "done",
                                               ![i].fetched = out.results,
                                               ![i].reported = "ok"]
                       /\ toast' = ResultToast(Len(out.results))
                       /\ loading' = FALSE
                       /\ UNCHANGED backendLog
    /\ UNCHANGED <<userLocation, searchQuery, radius, searched, initialSearchDone, user>>
    /\ UNCHANGED <<medicines, today, search_history, call, authVars, inventoryVars>>

\* logSearch settles: lines 217-228, or the catch block if logSearch threw
LogSettles(i, outcome) ==
    /\ i \in 1..Len(reqs)
    /\ reqs[i].pc = "log"
    /\ LET r == reqs[i]
           out == logSearch(r.user, outcome)
       IN /\ search_history' =
                 IF out.inserted
                 THEN Append(search_history,
                             [user_id |-> r.user, search_query |-> r.query,
                              results_count |-> Len(r.fetched)])
                 ELSE search_history
          /\ IF out.kind = "throw"
             THEN /\ toast' = "Search failed"
                  /\ reqs' = [reqs EXCEPT ![i].pc = "done", ![i].log = outcome,
                                          ![i].reported = "failed"]
             ELSE /\ toast' = ResultToast(Len(r.fetched))
                  /\ reqs' = [reqs EXCEPT ![i].pc = "done", ![i].log = outcome,
                                          ![i].reported = "ok"]
    /\ loading' = FALSE
    /\ UNCHANGED <<userLocation, searchQuery, radius, results, searched,
                   initialSearchDone, displayed, user>>
    /\ UNCHANGED <<medicines, today, backendLog, call, authVars, inventoryVars>>

\* the inventory the page searches: "b" and "Ab", both at store 1
PageMedicines ==
    <<Row(1, 1, <<"b">>, NOTEXT, NOTEXT, 1, TRUE, NULL),
      Row(2, 1, <<"A", "b">>, NOTEXT, NOTEXT, 1, TRUE, NULL)>>

InitSearchPage ==
    /\ medicines = PageMedicines
    /\ today = 0
    /\ search_history = <<>>
    /\ backendLog = {}
    /\ call = NoCall
    /\ user \in {NULL, 1}
    /\ InitPage

NextSearchPage ==
    \/ LocationResolved(<<10, 10>>)
    \/ \E q \in PageQueries : TypeQuery(q)
    \/ SubmitForm
    \/ \E q \in Suggestions : handleSuggestionClick(q)
    \/ \E q \in {<<" ">>, <<"a">>} : UrlSearch(q)
    \/ \E i \in 1..MaxReqs : AnimationDone(i)
    \/ \E i \in 1..MaxReqs, resp \in Responses : SearchSettles(i, resp)
    \/ \E i \in 1..MaxReqs, o \in LogOutcomes : LogSettles(i, o)

SpecSearchPage == InitSearchPage /\ [][NextSearchPage]_vars

\* What the page itself guarantees to happen: the button animation awaited at
\* lines 186-189 resolves.  The answers of the record store are not the page's
\* to give, and handleSearch sets no timer that would stand in for one.
FairSearchPage ==
    SpecSearchPage /\ \A i \in 1..MaxReqs : WF_vars(AnimationDone(i))

----------------------------------------------------------------------------
(* Signing in and out: signIn of lib/supabase.js, login and logout of the  *)
(* auth store, handleSubmit of AuthPage in its login mode.  call records   *)
(* the last submission.                                                    *)

Roles == {"customer", "retailer"}

\* the accounts that sign in: a retailer and a customer
Accounts == {1, 3}

\* signIn(email, password, expectedRole) for the account of the email, passwordOk
\* telling whether signInWithPassword accepts the credentials.  The role is read
\* from the user's metadata, else from the profiles table; on a mismatch the
\* client is signed out again and the call throws.
signIn(account, passwordOk, expectedRole) ==
    IF ~passwordOk
    THEN [kind |-> "throw", message |-> "Invalid email or password",
          user |-> NULL, signedOut |-> FALSE]
    ELSE LET userRole == profiles[account]
         IN IF expectedRole # NoRole /\ userRole # NoRole /\ userRole # expectedRole
            THEN [kind |-> "throw", message |-> "This account is registered as a",
                  user |-> NULL, signedOut |-> TRUE]
            ELSE [kind |-> "return", message |-> NoError,
                  user |-> account, signedOut |-> FALSE]

\* authStore.login: declared as login(email, password), it calls
\* signIn(email, password); a third argument of its caller goes nowhere
login(account, passwordOk, role) == signIn(account, passwordOk, NoRole)

\* a promise callback of the auth store that has not run yet
Background(op, uid) == [op |-> op, uid |-> uid]

\* AuthPage.handleSubmit with isLogin: the validation, then
\* login(formData.email, formData.password, selectedRole) with the store's
\* updates, then the toast and the navigation, or the inline error
handleSubmit(filled, account, passwordOk) ==
    /\ IF ~filled
       THEN /\ formError' = "Please enter both email and password."
            /\ call' = [pc |-> "idle", op |-> "login", uid |-> account,
                        selectedRole |-> selectedRole, passwordOk |-> passwordOk,
                        kind |-> "invalid"]
            /\ UNCHANGED <<user, session, profile, authLoading, initialized,
                           authError, clientSession, toast, route, callbacks>>
       ELSE LET out == login(account, passwordOk, selectedRole)
            IN /\ call' = [pc |-> "idle", op |-> "login", uid |-> account,
                           selectedRole |-> selectedRole, passwordOk |-> passwordOk,
                           kind |-> out.kind]
               /\ authLoading' = FALSE
               /\ IF out.kind = "return"
                  THEN /\ user' = out.user
                       /\ session' = out.user
                       /\ profile' = profiles[out.user]
                       /\ clientSession' = out.user
                       /\ initialized' = TRUE
                       /\ authError' = NoError
                       /\ formError' = NoError
                       /\ toast' = "Welcome back!"
                       /\ route' = IF selectedRole = "retailer"
                                   THEN "/" ELSE "/customer/dashboard"
                       /\ callbacks' = callbacks \cup {Background("setProfile", out.user)}
                  ELSE /\ authError' = out.message
                       /\ formError' = out.message
                       /\ IF out.signedOut
                          THEN /\ user' = NULL /\ session' = NULL
                               /\ profile' = NoRole /\ clientSession' = NULL
                               /\ initialized' = TRUE
                          ELSE UNCHANGED <<user, session, profile, clientSession,
                                           initialized>>
                       /\ UNCHANGED <<toast, route, callbacks>>
    /\ UNCHANGED <<selectedRole, userLocation, searchQuery, radius, results, loading,
                   searched, initialSearchDone, reqs, displayed>>
    /\ UNCHANGED <<dbVars, inventoryVars>>

\* onClick={() => setSelectedRole(...)}
setSelectedRole(r) ==
    /\ selectedRole' = r
    /\ UNCHANGED <<session, profile, authLoading, initialized, authError,
                   clientSession, formError, route>>
    /\ UNCHANGED <<userLocation, user, searchQuery, radius, results, loading, searched,
                   toast, initialSearchDone, reqs, displayed, callbacks>>
    /\ UNCHANGED <<dbVars, call, inventoryVars>>

\* authStore.logout, signOut succeeding or throwing
logout(ok) ==
    /\ user # NULL
    /\ authLoading' = FALSE
    /\ IF ok
       THEN /\ user' = NULL /\ session' = NULL /\ profile' = NoRole
            /\ clientSession' = NULL
            /\ authError' = NoError
       ELSE /\ authError' = "Error signing out"
            /\ UNCHANGED <<user, session, profile, clientSession>>
    /\ call' = [pc |-> "idle", op |-> "logout", uid |-> user]
    /\ UNCHANGED <<initialized, selectedRole, formError, route>>
    /\ UNCHANGED <<userLocation, searchQuery, radius, results, loading, searched,
                   toast, initialSearchDone, reqs, displayed, callbacks>>
    /\ UNCHANGED <<dbVars, inventoryVars>>

\* getProfile(user.id).then(profile => { if (profile) set({ profile }) }), left
\* behind by login, by register and by the SIGNED_IN listener: getProfile
\* resolves, to the profile or to null
backgroundProfile(cb, found) ==
    /\ cb \in callbacks
    /\ cb.op = "setProfile"
    /\ callbacks' = callbacks \ {cb}
    /\ profile' = IF found THEN profiles[cb.uid] ELSE profile
    /\ call' = Request(cb.op, cb.uid)
    /\ UNCHANGED <<session, authLoading, initialized, authError, clientSession,
                   selectedRole, formError, route>>
    /\ UNCHANGED <<userLocation, user, searchQuery, radius, results, loading, searched,
                   toast, initialSearchDone, reqs, displayed>>
    /\ UNCHANGED <<dbVars, inventoryVars>>

\* the sign-in page opened by a visitor who is not signed in
InitAuth ==
    /\ medicines = <<>>
    /\ today = 0
    /\ search_history = <<>>
    /\ backendLog = {}
    /\ call = [pc |-> "idle", op |-> "none", uid |-> NULL]
    /\ user = NULL
    /\ PageFirstRender
    /\ session = NULL
    /\ profile = NoRole
    /\ authLoading = FALSE
    /\ initialized = TRUE
    /\ authError = NoError
    /\ clientSession = NULL
    /\ selectedRole = "customer"
    /\ formError = NoError
    /\ route = "/auth"
    /\ callbacks = {}
    /\ InventoryClosed

NextAuth ==
    \/ \E filled \in BOOLEAN, a \in Accounts, ok \in BOOLEAN : handleSubmit(filled, a, ok)
    \/ \E r \in Roles : setSelectedRole(r)
    \/ \E ok \in BOOLEAN : logout(ok)
    \/ \E cb \in callbacks, found \in BOOLEAN : backgroundProfile(cb, found)

SpecAuth == InitAuth /\ [][NextAuth]_vars

----------------------------------------------------------------------------
(* The auth store from its creation on: initialize, register, the          *)
(* callbacks the store leaves behind, the listener of onAuthStateChange,   *)
(* and ProtectedRoute.  callbacks holds every promise callback that has    *)
(* not run yet; they run in any order.                                     *)

\* allowedRoles when the prop is not given
NoAllowedRoles == {"undefined"}

\* the paths behind ProtectedRoute that are visited, and their allowedRoles
ProtectedPaths == {"/customer/dashboard", "/retailer/dashboard", "/profile"}

AllowedRoles(path) ==
    IF path = "/customer/dashboard" THEN {"customer"}
    ELSE IF path = "/retailer/dashboard" THEN {"retailer"}
    ELSE NoAllowedRoles

\* ProtectedRoute that does not look at loading
ProtectedRouteIgnoringLoading(allowedRoles) ==
    IF user = NULL THEN "/auth"
    ELSE IF allowedRoles # NoAllowedRoles /\ profile \notin allowedRoles THEN "/"
    ELSE "children"

\* ProtectedRoute({ children, allowedRoles }): what it renders, a <Navigate>
\* being named by its target
ProtectedRoute(allowedRoles) ==
    IF authLoading THEN "spinner"
    ELSE IF user = NULL THEN "/auth"
    ELSE IF allowedRoles # NoAllowedRoles /\ profile \notin allowedRoles THEN "/"
    ELSE "children"

\* App renders only its loading screen
showLoading == authLoading /\ user = NULL /\ profile = NoRole

\* the visitor opens a protected path
Visit(path) ==
    /\ call.op # "none"
    /\ route' = path
    /\ UNCHANGED <<session, profile, authLoading, initialized, authError, clientSession,
                   selectedRole, formError, callbacks>>
    /\ UNCHANGED <<userLocation, user, searchQuery, radius, results, loading, searched,
                   toast, initialSearchDone, reqs, displayed>>
    /\ UNCHANGED <<dbVars, call, inventoryVars>>

\* <Navigate to=... replace /> rendered by ProtectedRoute
Navigate ==
    /\ call.op # "none"
    /\ route \in ProtectedPaths
    /\ ProtectedRoute(AllowedRoles(route)) \in {"/auth", "/"}
    /\ route' = ProtectedRoute(AllowedRoles(route))
    /\ UNCHANGED <<session, profile, authLoading, initialized, authError, clientSession,
                   selectedRole, formError, callbacks>>
    /\ UNCHANGED <<userLocation, user, searchQuery, radius, results, loading, searched,
                   toast, initialSearchDone, reqs, displayed>>
    /\ UNCHANGED <<dbVars, call, inventoryVars>>

\* initialize(), called by App's effect on mount, up to its return or its
\* first await
initialize ==
    /\ call.op = "none"
    /\ IF initialized
       THEN /\ authLoading' = FALSE
            /\ UNCHANGED <<initialized, callbacks>>
       ELSE IF user # NULL /\ profile # NoRole
       THEN /\ authLoading' = FALSE
            /\ initialized' = TRUE
            /\ callbacks' = callbacks \cup {Background("verifySession", NULL)}
       ELSE /\ authLoading' = TRUE
            /\ callbacks' = callbacks \cup {Background("initSession", NULL)}
            /\ UNCHANGED initialized
    /\ call' = Request("initialize", NULL)
    /\ UNCHANGED <<session, profile, authError, clientSession, selectedRole, formError,
                   route>>
    /\ UNCHANGED <<userLocation, user, searchQuery, radius, results, loading, searched,
                   toast, initialSearchDone, reqs, displayed>>
    /\ UNCHANGED <<dbVars, inventoryVars>>

\* initialize with cached data: getSession() resolves
sessionVerified(cb) ==
    /\ cb \in callbacks
    /\ cb.op = "verifySession"
    /\ IF clientSession # NULL
       THEN /\ callbacks' = (callbacks \ {cb})
                               \cup {Background("refreshProfile", clientSession)}
            /\ UNCHANGED <<user, session, profile>>
       ELSE /\ callbacks' = callbacks \ {cb}
            /\ user' = NULL /\ profile' = NoRole /\ session' = NULL
    /\ call' = Request(cb.op, cb.uid)
    /\ UNCHANGED <<authLoading, initialized, authError, clientSession, selectedRole,
                   formError, route>>
    /\ UNCHANGED <<userLocation, searchQuery, radius, results, loading, searched,
                   toast, initialSearchDone, reqs, displayed>>
    /\ UNCHANGED <<dbVars, inventoryVars>>

\* initialize with cached data: getProfile(session.user.id) resolves, to the
\* profile or to null
profileRefreshed(cb, found) ==
    /\ cb \in callbacks
    /\ cb.op = "refreshProfile"
    /\ callbacks' = callbacks \ {cb}
    /\ IF found
       THEN /\ profile' = profiles[cb.uid] /\ session' = cb.uid /\ user' = cb.uid
       ELSE UNCHANGED <<user, session, profile>>
    /\ call' = Request(cb.op, cb.uid)
    /\ UNCHANGED <<authLoading, initialized, authError, clientSession, selectedRole,
                   formError, route>>
    /\ UNCHANGED <<userLocation, searchQuery, radius, results, loading, searched,
                   toast, initialSearchDone, reqs, displayed>>
    /\ UNCHANGED <<dbVars, inventoryVars>>

\* initialize without cached data: await getSession() returns
sessionFetched(cb) ==
    /\ cb \in callbacks
    /\ cb.op = "initSession"
    /\ IF clientSession # NULL
       THEN /\ callbacks' = (callbacks \ {cb})
                               \cup {Background("initProfile", clientSession)}
            /\ UNCHANGED <<user, session, profile, authLoading, initialized, authError>>
       ELSE /\ callbacks' = callbacks \ {cb}
            /\ user' = NULL /\ session' = NULL /\ profile' = NoRole
            /\ authLoading' = FALSE /\ initialized' = TRUE /\ authError' = NoError
    /\ call' = Request(cb.op, cb.uid)
    /\ UNCHANGED <<clientSession, selectedRole, formError, route>>
    /\ UNCHANGED <<userLocation, searchQuery, radius, results, loading, searched,
                   toast, initialSearchDone, reqs, displayed>>
    /\ UNCHANGED <<dbVars, inventoryVars>>

\* initialize without cached data: the race of getProfile and the timer is
\* over; the profile is the fetched one or the one made of the metadata, the
\* role being the same in both
profileFetched(cb) ==
    /\ cb \in callbacks
    /\ cb.op = "initProfile"
    /\ callbacks' = callbacks \ {cb}
    /\ user' = cb.uid /\ session' = cb.uid /\ profile' = profiles[cb.uid]
    /\ authLoading' = FALSE /\ initialized' = TRUE /\ authError' = NoError
    /\ call' = Request(cb.op, cb.uid)
    /\ UNCHANGED <<clientSession, selectedRole, formError, route>>
    /\ UNCHANGED <<userLocation, searchQuery, radius, results, loading, searched,
                   toast, initialSearchDone, reqs, displayed>>
    /\ UNCHANGED <<dbVars, inventoryVars>>

\* authStore.register for a new account, signUp succeeding or throwing
register(account, ok) ==
    /\ authLoading' = FALSE
    /\ IF ok
       THEN /\ user' = account /\ session' = account /\ profile' = profiles[account]
            /\ clientSession' = account
            /\ initialized' = TRUE
            /\ authError' = NoError
            /\ callbacks' = callbacks \cup {Background("setProfile", account)}
       ELSE /\ authError' = "Error signing up"
            /\ UNCHANGED <<user, session, profile, clientSession, initialized, callbacks>>
    /\ call' = Request("register", account)
    /\ UNCHANGED <<selectedRole, formError, route>>
    /\ UNCHANGED <<userLocation, searchQuery, radius, results, loading, searched,
                   toast, initialSearchDone, reqs, displayed>>
    /\ UNCHANGED <<dbVars, inventoryVars>>

\* the listener of supabase.auth.onAuthStateChange, the client telling what
\* became of its session
onAuthStateChange(event) ==
    /\ IF event = "SIGNED_IN" /\ clientSession # NULL
       THEN /\ user' = clientSession /\ session' = clientSession
            /\ profile' = IF profile # NoRole THEN profile ELSE profiles[clientSession]
            /\ authLoading' = FALSE /\ initialized' = TRUE
            /\ callbacks' = callbacks \cup {Background("setProfile", clientSession)}
       ELSE IF event = "SIGNED_OUT"
       THEN /\ clientSession = NULL
            /\ user' = NULL /\ session' = NULL /\ profile' = NoRole
            /\ authLoading' = FALSE /\ initialized' = TRUE
            /\ UNCHANGED callbacks
       ELSE /\ event = "TOKEN_REFRESHED" /\ clientSession # NULL
            /\ user' = clientSession /\ session' = clientSession
            /\ authLoading' = FALSE
            /\ UNCHANGED <<profile, initialized, callbacks>>
    /\ call' = Request(event, clientSession)
    /\ UNCHANGED <<authError, clientSession, selectedRole, formError, route>>
    /\ UNCHANGED <<userLocation, searchQuery, radius, results, loading, searched,
                   toast, initialSearchDone, reqs, displayed>>
    /\ UNCHANGED <<dbVars, inventoryVars>>

\* the store as created and rehydrated by persist, before App has mounted:
\* nothing cached, or the user, profile and session of account 1 or 3; the
\* session of the supabase client has expired or not
InitAuthStore ==
    /\ medicines = <<>>
    /\ today = 0
    /\ search_history = <<>>
    /\ backendLog = {}
    /\ call = Request("none", NULL)
    /\ PageFirstRender
    /\ user \in {NULL} \cup Accounts
    /\ session = user
    /\ profile = (IF user = NULL THEN NoRole ELSE profiles[user])
    /\ clientSession \in IF user = NULL THEN {NULL, 1} ELSE {NULL, user}
    /\ authLoading = TRUE
    /\ initialized = FALSE
    /\ authError = NoError
    /\ selectedRole = "customer"
    /\ formError = NoError
    /\ route = "/"
    /\ callbacks = {}
    /\ InventoryClosed

NextAuthStore ==
    \/ initialize
    \/ \E cb \in callbacks : sessionVerified(cb)
    \/ \E cb \in callbacks, found \in BOOLEAN : profileRefreshed(cb, found)
    \/ \E cb \in callbacks : sessionFetched(cb)
    \/ \E cb \in callbacks : profileFetched(cb)
    \/ \E cb \in callbacks, found \in BOOLEAN : backgroundProfile(cb, found)
    \/ \E e \in {"SIGNED_IN", "SIGNED_OUT", "TOKEN_REFRESHED"} :
          call.op # "none" /\ onAuthStateChange(e)
    \/ \E a \in Accounts, ok \in BOOLEAN :
          /\ call.op # "none" /\ ~authLoading /\ (user = NULL \/ profile = NoRole)
          /\ handleSubmit(TRUE, a, ok)
    \/ \E ok \in BOOLEAN :
          /\ call.op # "none" /\ ~authLoading /\ (user = NULL \/ profile = NoRole)
          /\ register(2, ok)
    \/ \E ok \in BOOLEAN : call.op # "none" /\ ~showLoading /\ logout(ok)
    \/ \E p \in ProtectedPaths : Visit(p)
    \/ Navigate

SpecAuthStore == InitAuthStore /\ [][NextAuthStore]_vars

----------------------------------------------------------------------------
(* InventoryManagement: the page of a signed-in retailer.  Every request   *)
(* the page has sent and not yet heard back from is a member of tasks; the *)
(* requests settle in any order.  call records how removeExpiredMedicines  *)
(* last ended.                                                             *)

\* the <select> is used only while the two requests it starts keep the
\* requests in flight within MaxTasks
MaxTasks == 2

\* storeId of the route retailer/inventory/:storeId: absent, a store of user 1,
\* a store of user 2
RouteStores == {NULL, 1, 3}

Task(op, s, day) == [op |-> op, store |-> s, today |-> day]

Ended(pc, s, day) == [pc |-> pc, op |-> "removeExpiredMedicines", store |-> s, today |-> day]

\* useEffect on [selectedStore]: fetchMedicines() and removeExpiredMedicines(),
\* neither awaited; removeExpiredMedicines reads the date when it starts
StoreEffect(s, day) ==
    IF s # NULL
    THEN {Task("fetchMedicines", s, day), Task("removeExpiredMedicines", s, day)}
    ELSE {}

\* .eq('owner_id', user.id)
OwnedStores(uid) == {s \in StoreIds : stores[s].owner_id = uid}

\* fetchInitialData hears back from the stores query; the query is not ordered,
\* so storesData[0] is any of the user's stores
fetchInitialData(ok) ==
    /\ Task("fetchInitialData", NULL, NULL) \in tasks
    /\ LET storesData == IF ok THEN OwnedStores(user) ELSE {}
       IN /\ pageStores' = storesData
          /\ IF storeId # NULL /\ storeId \in storesData
             THEN /\ selectedStore' = storeId
                  /\ tasks' = (tasks \ {Task("fetchInitialData", NULL, NULL)})
                                 \cup (IF selectedStore # storeId
                                       THEN StoreEffect(storeId, today) ELSE {})
             ELSE IF storesData # {} /\ storeId = NULL
             THEN \E first \in storesData :
                     /\ selectedStore' = first
                     /\ tasks' = (tasks \ {Task("fetchInitialData", NULL, NULL)})
                                    \cup (IF selectedStore # first
                                          THEN StoreEffect(first, today) ELSE {})
             ELSE /\ selectedStore' = selectedStore
                  /\ tasks' = tasks \ {Task("fetchInitialData", NULL, NULL)}
    /\ UNCHANGED <<storeId, pageMedicines, call, toast>>
    /\ UNCHANGED <<dbVars, user, userLocation, searchQuery, radius, results, loading,
                   searched, initialSearchDone, reqs, displayed, authVars>>

\* the store <select>: onChange={(e) => setSelectedStore(e.target.value)}, its
\* options being '' and the stores of the page
setSelectedStore(s) ==
    /\ s \in pageStores \cup {NULL}
    /\ s # selectedStore
    /\ Cardinality(tasks) + 2 <= MaxTasks
    /\ selectedStore' = s
    /\ tasks' = tasks \cup StoreEffect(s, today)
    /\ UNCHANGED <<storeId, pageStores, pageMedicines, call, toast>>
    /\ UNCHANGED <<dbVars, user, userLocation, searchQuery, radius, results, loading,
                   searched, initialSearchDone, reqs, displayed, authVars>>

\* .order('name'): position of a character in the collation
CharRank(c) == IF c = " " THEN 0 ELSE IF Lower(c) = "a" THEN 1 ELSE 2

RECURSIVE NameBefore(_, _)
NameBefore(a, b) ==
    IF a = <<>> THEN TRUE
    ELSE IF b = <<>> THEN FALSE
    ELSE IF CharRank(Head(a)) # CharRank(Head(b)) THEN CharRank(Head(a)) < CharRank(Head(b))
    ELSE NameBefore(Tail(a), Tail(b))

\* .select(...).eq('store_id', selectedStore).order('name'): the rows of the
\* store in every order the sort key admits ("Anyone can view medicines")
StoreRowsByName(rows, s) ==
    LET sel == SelectSeq(rows, LAMBDA m : m.store_id = s)
        n   == Len(sel)
    IN {[i \in 1..n |-> sel[p[i]]] : p \in
           {q \in Permutations(1..n) :
               \A i, j \in 1..n : i < j => NameBefore(sel[q[i]].name, sel[q[j]].name)}}

\* fetchMedicines hears back: setMedicines(data || []), or a toast on error
fetchMedicines(t, ok) ==
    /\ t \in tasks
    /\ t.op = "fetchMedicines"
    /\ tasks' = tasks \ {t}
    /\ IF ok
       THEN /\ pageMedicines' \in StoreRowsByName(medicines, t.store)
            /\ UNCHANGED toast
       ELSE /\ toast' = "Failed to load medicines"
            /\ UNCHANGED pageMedicines
    /\ UNCHANGED <<storeId, pageStores, selectedStore, call>>
    /\ UNCHANGED <<dbVars, user, userLocation, searchQuery, radius, results, loading,
                   searched, initialSearchDone, reqs, displayed, authVars>>

\* removeExpiredMedicines hears back from its select of the expired rows: it
\* returns on an error or when there is none, and sends the delete otherwise
findExpiredMedicines(t, ok) ==
    /\ t \in tasks
    /\ t.op = "removeExpiredMedicines"
    /\ LET expiredMeds == SelectSeq(medicines, LAMBDA m : ExpiredAt(m, t.store, t.today))
       IN IF ~ok
          THEN /\ tasks' = tasks \ {t}
               /\ call' = Ended("failed", t.store, t.today)
          ELSE IF Len(expiredMeds) > 0
          THEN /\ tasks' = (tasks \ {t})
                              \cup {[op |-> "deleteExpired", store |-> t.store,
                                     today |-> t.today, n |-> Len(expiredMeds)]}
               /\ call' = Ended("deleting", t.store, t.today)
          ELSE /\ tasks' = tasks \ {t}
               /\ call' = Ended("returned", t.store, t.today)
    /\ UNCHANGED <<storeId, pageStores, selectedStore, pageMedicines, toast>>
    /\ UNCHANGED <<dbVars, user, userLocation, searchQuery, radius, results, loading,
                   searched, initialSearchDone, reqs, displayed, authVars>>

\* DELETE ... WHERE store_id = s AND expiry_date < day, sent by uid: "Store
\* owners can delete medicines" leaves the rows of other owners' stores alone
\* and reports no error
DeleteExpiredAs(uid, rows, s, day) ==
    IF OwnsStore(uid, s) THEN DeleteExpired(rows, s, day) ELSE rows

\* removeExpiredMedicines hears back from its delete: a deleteError is only
\* logged, anything else is announced with the count of the select
deleteExpiredMedicines(t, ok) ==
    /\ t \in tasks
    /\ t.op = "deleteExpired"
    /\ tasks' = tasks \ {t}
    /\ IF ok
       THEN /\ medicines' = DeleteExpiredAs(user, medicines, t.store, t.today)
            /\ toast' = "Removed expired medicine(s)"
            /\ call' = Ended("returned", t.store, t.today)
       ELSE /\ UNCHANGED <<medicines, toast>>
            /\ call' = Ended("failed", t.store, t.today)
    /\ UNCHANGED <<storeId, pageStores, selectedStore, pageMedicines>>
    /\ UNCHANGED <<today, search_history, backendLog>>
    /\ UNCHANGED <<user, userLocation, searchQuery, radius, results, loading,
                   searched, initialSearchDone, reqs, displayed, authVars>>

\* rows of a store of user 1 and of a store of user 2: expired yesterday,
\* expiring today, without an expiry date
StorePageProtoRows ==
    {Row(0, s, IF e = NULL THEN <<"A", "b">> ELSE <<"b">>, NOTEXT, NOTEXT, 1, TRUE, e) :
        s \in {1, 3}, e \in {NULL, 0, 1}}

\* the page as mounted for user 1 on some route: useState(storeId || ''), the
\* effects on [user] and on [selectedStore] have run
InitStorePage ==
    /\ \E n \in 0..MaxMeds : medicines \in TablesOver(StorePageProtoRows, n)
    /\ today = 1
    /\ search_history = <<>>
    /\ backendLog = {}
    /\ call = Ended("idle", NULL, NULL)
    /\ user = 1
    /\ PageFirstRender
    /\ AuthSettled
    /\ storeId \in RouteStores
    /\ pageStores = {}
    /\ selectedStore = storeId
    /\ pageMedicines = <<>>
    /\ tasks = {Task("fetchInitialData", NULL, NULL)} \cup StoreEffect(storeId, today)

NextStorePage ==
    \/ \E ok \in BOOLEAN : fetchInitialData(ok)
    \/ \E s \in StoreIds \cup {NULL} : setSelectedStore(s)
    \/ \E t \in tasks, ok \in BOOLEAN : fetchMedicines(t, ok)
    \/ \E t \in tasks, ok \in BOOLEAN : findExpiredMedicines(t, ok)
    \/ \E t \in tasks, ok \in BOOLEAN : deleteExpiredMedicines(t, ok)

SpecStorePage == InitStorePage /\ [][NextStorePage]_vars

----------------------------------------------------------------------------
(* The inventory form of InventoryManagement.  A price typed into the form *)
(* is counted in thousandths and a quantity in tenths; NULL is the empty   *)
(* input ''.  The price column is DECIMAL(10, 2), counted in hundredths.   *)

\* '', 0, 0.001, 0.01
PriceInputs == {NULL, 0, 1, 10}

\* '', -0.5, 0
QuantityInputs == {NULL, -5, 0}

NameInputs == {<<" ">>, <<"b">>}

FormData(n, p, q) == [name |-> n, price |-> p, quantity |-> q]

\* parseInt of a decimal numeral: the digits before the point
ParseInt(tenths) == IF tenths >= 0 THEN tenths \div 10 ELSE -((-tenths) \div 10)

\* a value of thousandths stored in DECIMAL(10, 2): rounded to hundredths
ToDecimal2(thousandths) == (thousandths + 5) \div 10

\* the browser's check of the form before it raises onSubmit: name, price and
\* quantity are required, price has min="0" step="0.01", quantity has min="0"
\* and the default step 1
ConstraintsMet(f) ==
    /\ f.name # <<>>
    /\ f.price # NULL /\ f.price >= 0 /\ f.price % 10 = 0
    /\ f.quantity # NULL /\ f.quantity >= 0 /\ f.quantity % 10 = 0

\* handleSubmit's checks without the one of the price
RejectionIgnoringPrice(s, f) ==
    IF s = NULL THEN "Please select a store first"
    ELSE IF Trim(f.name) = <<>> THEN "Medicine name is required"
    ELSE IF f.quantity = NULL \/ ParseInt(f.quantity) < 0 THEN "Please enter a valid quantity"
    ELSE NoToast

\* handleSubmit's checks of selectedStore and formData: the toast of the first
\* one that fails
Rejection(s, f) ==
    IF s = NULL THEN "Please select a store first"
    ELSE IF Trim(f.name) = <<>> THEN "Medicine name is required"
    ELSE IF f.price = NULL \/ f.price <= 0 THEN "Please enter a valid price"
    ELSE IF f.quantity = NULL \/ ParseInt(f.quantity) < 0 THEN "Please enter a valid quantity"
    ELSE NoToast

\* medicineData; parseInt(...) || 0 is the parsed quantity, 0 being falsy
medicineData(s, f) ==
    [store_id |-> s, name |-> Trim(f.name), price |-> ToDecimal2(f.price),
     quantity |-> ParseInt(f.quantity)]

Submitted(pc, s, f) == [pc |-> pc, op |-> "handleSubmit", store |-> s, form |-> f]

\* the form is submitted with formData f, for a new medicine (editing = NULL)
\* or for row editing of the page's list; ok: the record store is reachable
handleSubmitMedicine(f, editing, ok) ==
    /\ editing = NULL \/ editing \in 1..Len(pageMedicines)
    /\ LET data == medicineData(selectedStore, f)
           k    == IF editing = NULL THEN 0
                   ELSE IF \E i \in 1..Len(medicines) : medicines[i].id = pageMedicines[editing].id
                   THEN CHOOSE i \in 1..Len(medicines) : medicines[i].id = pageMedicines[editing].id
                   ELSE 0
       IN IF ~ConstraintsMet(f)
          THEN /\ call' = Submitted("blocked", selectedStore, f)
               /\ UNCHANGED <<medicines, toast, tasks>>
          ELSE IF Rejection(selectedStore, f) # NoToast
          THEN /\ call' = Submitted("rejected", selectedStore, f)
               /\ toast' = Rejection(selectedStore, f)
               /\ UNCHANGED <<medicines, tasks>>
          ELSE IF ~ok
          THEN /\ call' = Submitted("failed", selectedStore, f)
               /\ toast' = "Failed to save medicine"
               /\ UNCHANGED <<medicines, tasks>>
          ELSE IF editing = NULL
          THEN \* "Store owners can insert medicines" WITH CHECK
               IF OwnsStore(user, data.store_id) /\ Len(medicines) < MaxMeds
               THEN /\ medicines' = Append(medicines,
                                      mark_expired_medicines_unavailable(
                                          [id |-> FreshId(medicines),
                                           store_id |-> data.store_id,
                                           name |-> data.name,
                                           generic_name |-> NOTEXT,
                                           manufacturer |-> NOTEXT,
                                           price |-> data.price,
                                           quantity |-> data.quantity,
                                           is_available |-> TRUE,
                                           expiry_date |-> NULL],
                                          today))
                    /\ call' = Submitted("written", selectedStore, f)
                    /\ toast' = "Medicine added successfully!"
                    /\ tasks' = tasks \cup {Task("fetchMedicines", selectedStore, today)}
               ELSE /\ call' = Submitted("failed", selectedStore, f)
                    /\ toast' = "Failed to save medicine"
                    /\ UNCHANGED <<medicines, tasks>>
          ELSE \* "Store owners can update medicines": USING on the old row
               \* filters, the same expression on the new row raises an error
               LET new == IF k = 0 THEN data
                          ELSE mark_expired_medicines_unavailable(
                                   [medicines[k] EXCEPT !.store_id = data.store_id,
                                                        !.name = data.name,
                                                        !.price = data.price,
                                                        !.quantity = data.quantity],
                                   today)
               IN IF k # 0 /\ OwnsStore(user, medicines[k].store_id)
                           /\ ~OwnsStore(user, new.store_id)
                  THEN /\ call' = Submitted("failed", selectedStore, f)
                       /\ toast' = "Failed to save medicine"
                       /\ UNCHANGED <<medicines, tasks>>
                  ELSE /\ medicines' = IF k # 0 /\ OwnsStore(user, medicines[k].store_id)
                                       THEN [medicines EXCEPT ![k] = new]
                                       ELSE medicines
                       /\ call' = Submitted("written", selectedStore, f)
                       /\ toast' = "Medicine updated successfully!"
                       /\ tasks' = tasks \cup {Task("fetchMedicines", selectedStore, today)}
    /\ UNCHANGED <<storeId, pageStores, selectedStore, pageMedicines>>
    /\ UNCHANGED <<today, search_history, backendLog>>
    /\ UNCHANGED <<user, userLocation, searchQuery, radius, results, loading,
                   searched, initialSearchDone, reqs, displayed, authVars>>

\* the page of user 1 with its stores loaded and some store, a foreign one
\* of the route, or none selected; the table is empty
InitForm ==
    /\ medicines = <<>>
    /\ today = 1
    /\ search_history = <<>>
    /\ backendLog = {}
    /\ call = Submitted("idle", NULL, FormData(<<>>, NULL, NULL))
    /\ user = 1
    /\ PageFirstRender
    /\ AuthSettled
    /\ storeId \in RouteStores
    /\ pageStores = OwnedStores(user)
    /\ selectedStore \in IF storeId = NULL THEN {NULL, 1} ELSE {storeId}
    /\ pageMedicines = <<>>
    /\ tasks = {}

NextForm ==
    \/ \E n \in NameInputs, p \in PriceInputs, q \in QuantityInputs,
          editing \in {NULL} \cup 1..MaxMeds, ok \in BOOLEAN :
          handleSubmitMedicine(FormData(n, p, q), editing, ok)
    \/ \E t \in tasks, ok \in BOOLEAN : fetchMedicines(t, ok)

SpecForm == InitForm /\ [][NextForm]_vars

----------------------------------------------------------------------------
(* Properties of searchMedicines, checked under SpecSearch *)

Returned == call.pc = "done" /\ call.kind = "return"

\* the call had an origin: both lat and lng were given
WithOrigin == call.pc = "done" /\ call.lat # NULL /\ call.lng # NULL

WithoutOrigin == call.pc = "done" /\ call.lat = NULL /\ call.lng = NULL

\* the great-circle distance from a point to a result's store
DistanceFrom(lat, lng, item) ==
    calculateDistance(lat, lng, stores[item.store_id].latitude,
                      stores[item.store_id].longitude)

\* C1: every result of a call with an origin and a positive radius carries a
\* distance_km, and it lies no farther than radius from the origin.
C1_ResultsWithinRadius ==
    (Returned /\ WithOrigin /\ call.radius > 0) =>
        \A i \in 1..Len(call.results) :
            /\ call.results[i].distance_km # NULL
            /\ call.results[i].distance_km <= call.radius
            /\ DistanceFrom(call.lat, call.lng, call.results[i]) <= call.radius

\* C2: the returned list is ordered non-decreasing by distance_km.
C2_SortedByDistance ==
    (Returned /\ WithOrigin) =>
        \A i \in 1..(Len(call.results) - 1) :
            (call.results[i].distance_km # NULL /\ call.results[i + 1].distance_km # NULL)
                => call.results[i].distance_km <= call.results[i + 1].distance_km

\* the rows of the table that match the call's search term
MatchingRows == {i \in 1..Len(medicines) : TextFilter(medicines[i], call.searchTerm)}

\* C3: every returned result has quantity > 0 and is_available = true; when no
\* matching row is in stock, nothing is returned.
C3_OnlyAvailableInStock ==
    Returned =>
        /\ \A i \in 1..Len(call.results) :
              call.results[i].quantity > 0 /\ call.results[i].is_available
        /\ (\A i \in MatchingRows : medicines[i].quantity = 0) => call.results = <<>>

\* a search for "a" that found nothing because the one matching row has quantity 0
C3_Witness ==
    /\ Returned /\ call.resp = "ok" /\ call.searchTerm = <<"a">>
    /\ call.lat = 10 /\ call.lng = 10 /\ call.radius = 50
    /\ Cardinality(MatchingRows) = 1
    /\ \A i \in MatchingRows :
          medicines[i].quantity = 0 /\ medicines[i].is_available
                                     /\ medicines[i].store_id = 1
    /\ call.results = <<>>

\* C5 as claimed: without an origin the call does not fail and every returned
\* store lies within radius of one reference point, so that any two returned
\* stores are at most 2 * radius apart.
C5_RadiusAppliedWithoutOrigin ==
    (WithoutOrigin /\ call.resp = "ok" /\ call.radius > 0) =>
        /\ call.kind = "return"
        /\ \A i, j \in 1..Len(call.results) :
              DistanceFrom(stores[call.results[i].store_id].latitude,
                           stores[call.results[i].store_id].longitude,
                           call.results[j]) <= 2 * call.radius

\* C5 as amended: without an origin the call does not fail and applies no radius
\* filter and no ordering: it returns every available in-stock row matching the
\* term, in the record store's order, with no distance_km.
C5_NoOriginReturnsAllUnfiltered ==
    (WithoutOrigin /\ call.resp = "ok") =>
        /\ call.kind = "return"
        /\ Len(call.results) =
              Cardinality({k \in MatchingRows :
                              medicines[k].is_available /\ medicines[k].quantity > 0})
        /\ \A i \in 1..Len(call.results) :
              \E k \in MatchingRows :
                  /\ medicines[k].id = call.results[i].id
                  /\ medicines[k].store_id = call.results[i].store_id
        /\ \A i \in 1..Len(call.results) : call.results[i].distance_km = NULL
        /\ \A i \in 1..(Len(call.results) - 1) :
              call.results[i].id < call.results[i + 1].id

\* a call without origin and radius 10 that returned two stores 150 km apart
C5_Witness ==
    /\ WithoutOrigin /\ call.resp = "ok" /\ call.radius = 10
    /\ call.kind = "return"
    /\ Len(call.results) = 2
    /\ call.results[1].store_id = 1 /\ call.results[2].store_id = 3

\* C6: a call with radius 0 or negative is rejected, it returns no list.
C6_NonPositiveRadiusRejected ==
    (call.pc = "done" /\ call.radius <= 0) => call.kind = "throw"

\* C8: when the record store reports an error or answers without data, the call
\* throws and returns no list.
C8_BackendFailureThrows ==
    (call.pc = "done" /\ call.resp \in {"error", "nodata"}) => call.kind = "throw"

\* the rows of the table the call's query selects: available, in stock and
\* matching the term
Candidates ==
    {k \in 1..Len(medicines) :
        QueryFilter(medicines[k]) /\ TextFilter(medicines[k], call.searchTerm)}

\* a call with an origin and a positive radius that the record store answered
\* with data
Answered ==
    /\ Returned /\ WithOrigin
    /\ call.resp = "ok" /\ call.radius > 0

\* C12: for any origin, an origin or a store on latitude or longitude 0
\* included, a nearer store is returned before a farther one; from the origin
\* (0, 0) with radius 50, a medicine stocked at (0, 0.1) and at (0, 1.0) is
\* returned for the first store only.
C12_NearerStoreFirst ==
    Answered =>
        /\ \A i, j \in 1..Len(call.results) :
              i < j => DistanceFrom(call.lat, call.lng, call.results[i])
                          <= DistanceFrom(call.lat, call.lng, call.results[j])
        /\ (/\ call.lat = 0 /\ call.lng = 0 /\ call.radius = 50
            /\ Len(medicines) = 2 /\ Candidates = {1, 2}
            /\ {medicines[1].store_id, medicines[2].store_id} = {3, 4})
              => /\ Len(call.results) = 1
                 /\ call.results[1].store_id = 3

\* C13: the radius is an inclusive upper bound on the distance from the origin:
\* a candidate is returned exactly when its distance is at most radius.
C13_RadiusInclusive ==
    Answered =>
        \A k \in Candidates :
            (DistanceFrom(call.lat, call.lng, medicines[k]) <= call.radius)
                <=> (\E i \in 1..Len(call.results) :
                        call.results[i].id = medicines[k].id)

\* C14: when the origin is the place of a store with a candidate, the candidate
\* is returned with distance 0 for every positive radius, before every result
\* whose distance is greater than 0.
C14_OriginAtStoreComesFirst ==
    Answered =>
        \A k \in Candidates :
            (/\ stores[medicines[k].store_id].latitude = call.lat
             /\ stores[medicines[k].store_id].longitude = call.lng)
              => \E i \in 1..Len(call.results) :
                    /\ call.results[i].id = medicines[k].id
                    /\ call.results[i].distance_km = 0
                    /\ \A j \in 1..Len(call.results) :
                          (call.results[j].distance_km # NULL
                              /\ call.results[j].distance_km > 0) => i < j

\* C15: results with equal distance keep the order in which the record store
\* returned them (ids are in the record store's order).
C15_TiesKeepStoreOrder ==
    Returned =>
        \A i, j \in 1..Len(call.results) :
            (i < j /\ call.results[i].distance_km = call.results[j].distance_km)
                => call.results[i].id < call.results[j].id

\* two candidates at the same store, 11 km from the origin, returned in the
\* record store's order
C15_Witness ==
    /\ Answered /\ call.lat = 10 /\ call.lng = 10 /\ call.radius = 50
    /\ Len(call.results) = 2
    /\ call.results[1].distance_km = 11 /\ call.results[2].distance_km = 11
    /\ call.results[1].id = 1 /\ call.results[2].id = 2

----------------------------------------------------------------------------
(* Properties of the text match of searchMedicines, checked under SpecText *)

\* term is a case-insensitive substring of the column's text
ContainsIgnoreCase(field, term) ==
    /\ field # NOTEXT
    /\ \E i \in 0..(Len(field) - Len(term)) :
          LowerText(SubSeq(field, i + 1, i + Len(term))) = LowerText(term)

\* C16: for a non-blank query, an available in-stock item within radius is
\* returned if and only if the query is a case-insensitive substring of its
\* name, its generic name or its manufacturer.
C16_ReturnedIffSubstring ==
    (Answered /\ NonBlank(call.searchTerm)) =>
        \A k \in 1..Len(medicines) :
            (/\ QueryFilter(medicines[k])
             /\ DistanceFrom(call.lat, call.lng, medicines[k]) <= call.radius)
              => ((\E i \in 1..Len(call.results) : call.results[i].id = medicines[k].id)
                   <=> \/ ContainsIgnoreCase(medicines[k].name, call.searchTerm)
                       \/ ContainsIgnoreCase(medicines[k].generic_name, call.searchTerm)
                       \/ ContainsIgnoreCase(medicines[k].manufacturer, call.searchTerm))

----------------------------------------------------------------------------
(* Properties of searchMedicines over stores with invalid coordinates,      *)
(* checked under SpecCoordinates                                           *)

\* the coordinates are a place on Earth: latitude in [-90, 90], longitude in
\* [-180, 180]
ValidCoordinates(s) ==
    /\ s.latitude \in -900..900
    /\ s.longitude \in -1800..1800

\* C11: a call the record store answers never fails because of a store with
\* missing or invalid coordinates, and no result of it belongs to such a store,
\* whatever radius was passed.
C11_NoCoordinatesNeverReturned ==
    (call.pc = "done" /\ call.resp = "ok") =>
        /\ call.kind = "return"
        /\ \A i \in 1..Len(call.results) :
              ValidCoordinates(stores[call.results[i].store_id])

----------------------------------------------------------------------------
(* Properties of the search over a changing inventory, under SpecInventory *)

\* C4: no returned result has an expiry date earlier than the day of the call.
C4_NoExpiredResult ==
    Returned =>
        \A i \in 1..Len(call.results) :
            call.results[i].expiry_date = NULL \/ call.results[i].expiry_date >= call.day

----------------------------------------------------------------------------
(* Properties of the search page, checked under SpecSearchPage *)

\* C7: no request reaches the record store for an empty or whitespace-only
\* query: every medicines query, every search_history insert and every row of
\* search_history carries a non-blank query, and no invocation of handleSearch
\* gets past the validation with a blank query.
C7_BlankQueryNeverReachesBackend ==
    /\ \A e \in backendLog : NonBlank(e.term)
    /\ \A k \in 1..Len(search_history) : NonBlank(search_history[k].search_query)
    /\ \A i \in 1..Len(reqs) : NonBlank(reqs[i].query)

\* a whitespace-only query was submitted with a location known: it was rejected
\* with the validation toast and nothing was sent
C7_Witness ==
    /\ searchQuery = <<" ">>
    /\ userLocation # NoLocation
    /\ toast = "Please enter a medicine name"
    /\ reqs = <<>>
    /\ backendLog = {}

\* C9: the results on display are never replaced by those of a search started
\* earlier than the one they came from.
C9_NoStaleOverwrite == [][displayed' >= displayed]_vars

\* C10: a search whose logSearch failed is reported as successful, and the
\* results it set for display are still the ones it fetched.
C10_LogFailureHarmless ==
    \A i \in 1..Len(reqs) :
        (reqs[i].pc = "done" /\ reqs[i].log \in {"error", "exception"}) =>
            /\ reqs[i].reported = "ok"
            /\ displayed = i => results = reqs[i].fetched

\* a search found a medicine, its logSearch failed, and the page shows the
\* results with the success toast
C10_Witness ==
    \E i \in 1..Len(reqs) :
        /\ reqs[i].pc = "done" /\ reqs[i].log = "error"
        /\ displayed = i /\ results # <<>> /\ results = reqs[i].fetched
        /\ toast = "Found" /\ ~loading
        /\ search_history = <<>>

\* C17: a search whose record-store call is pending comes to an end, whether or
\* not the record store ever answers: the call does not stay pending forever.
C17_PendingSearchEnds ==
    \A i \in 1..MaxReqs :
        [](  (Len(reqs) >= i /\ reqs[i].pc = "fetch")
               => <>(Len(reqs) >= i /\ reqs[i].pc # "fetch"))

\* C20: the page is in the no-results state (searched, no results, not
\* loading) only after a search that completed successfully with zero matches.
C20_NoResultsOnlyAfterEmptySuccess ==
    (searched /\ results = <<>> /\ ~loading) =>
        \E i \in 1..Len(reqs) :
            /\ reqs[i].pc = "done"
            /\ reqs[i].reported = "ok"
            /\ reqs[i].fetched = <<>>

----------------------------------------------------------------------------
(* Properties of the writes to the medicines table, under SpecPolicies *)

\* the rows of a table, as a set
RowSet(rows) == {rows[k] : k \in 1..Len(rows)}

\* C18: every row a request inserts, changes or deletes belongs to a store the
\* requesting user owns; a request of anybody else, signed in or not, leaves
\* the medicines table as it was.
C18_OnlyStoreOwnerWrites ==
    [][\A m \in (RowSet(medicines) \ RowSet(medicines'))
                  \cup (RowSet(medicines') \ RowSet(medicines)) :
           OwnsStore(call'.uid, m.store_id)]_vars

----------------------------------------------------------------------------
(* Properties of signing in, checked under SpecAuth *)

\* C19: a login submitted with valid credentials and a selected role other
\* than the role the account is registered under is rejected, and afterwards
\* the auth store holds no user and no session.
C19_RoleMismatchRejected ==
    (/\ call.op = "login" /\ call.kind # "invalid" /\ call.passwordOk
     /\ profiles[call.uid] # call.selectedRole)
        => /\ call.kind = "throw"
           /\ user = NULL
           /\ session = NULL

----------------------------------------------------------------------------
(* Properties of InventoryManagement, checked under SpecStorePage *)

\* removeExpiredMedicines of task t ends with this step without a backend error
SweepReturns(t) ==
    /\ t \in tasks
    /\ t.op \in {"removeExpiredMedicines", "deleteExpired"}
    /\ tasks' = tasks \ {t}
    /\ call' = Ended("returned", t.store, t.today)

\* C21: when removeExpiredMedicines ends without a backend error, the store
\* it ran for has no medicine whose expiry_date is before the day of the
\* sweep, and every other row of the table (no expiry date, expiring that day
\* or later, any other store) is as it was.
C21_SweepRemovesExactlyExpired ==
    [][\A t \in tasks :
          SweepReturns(t) =>
              /\ \A k \in 1..Len(medicines') : ~ExpiredAt(medicines'[k], t.store, t.today)
              /\ medicines' = SelectSeq(medicines,
                                        LAMBDA m : ~ExpiredAt(m, t.store, t.today))]_vars

\* C28: the selected store is empty or a store of the signed-in user, and
\* fetchMedicines and removeExpiredMedicines are only ever sent for the
\* user's own stores.
C28_SelectedStoreIsOwn ==
    /\ selectedStore = NULL \/ OwnsStore(user, selectedStore)
    /\ \A t \in tasks : t.op # "fetchInitialData" => OwnsStore(user, t.store)

\* C29: once every request of the store-selection effect has settled, the
\* medicines list of the page holds no row that the sweep deleted, the sweep
\* being the only writer of the table.
C29_PageListHasNoSweptRow ==
    tasks = {} => \A i \in 1..Len(pageMedicines) : pageMedicines[i] \in RowSet(medicines)

----------------------------------------------------------------------------
(* Properties of the expiry trigger, checked under SpecInventory *)

\* C22: every row that an insert or an update of the inventory page
\* (the form, toggleAvailability) writes to the medicines table has
\* is_available = FALSE when its expiry_date is earlier than the current
\* date, whatever availability the page asked for.
C22_WrittenExpiredRowUnavailable ==
    [][\A m \in RowSet(medicines') \ RowSet(medicines) :
          (m.expiry_date # NULL /\ m.expiry_date < today') => ~m.is_available]_vars

\* the table holds an expired medicine, written as unavailable
C22_Witness ==
    \E k \in 1..Len(medicines) :
        /\ medicines[k].expiry_date # NULL
        /\ medicines[k].expiry_date < today
        /\ ~medicines[k].is_available

----------------------------------------------------------------------------
(* Properties of the inventory form, checked under SpecForm *)

\* C23: a submission of the inventory form changes the medicines table only
\* when a store is selected, the trimmed name is not empty, the price is
\* greater than 0 and the quantity is not negative; a submission that
\* handleSubmit rejects changes nothing; every row a submission writes has
\* price > 0 and an integer quantity >= 0.
C23_FormWritesOnlyValidRows ==
    [][/\ medicines' # medicines =>
              /\ call'.store # NULL
              /\ Trim(call'.form.name) # <<>>
              /\ call'.form.price # NULL /\ call'.form.price > 0
              /\ call'.form.quantity # NULL /\ call'.form.quantity >= 0
       /\ call'.pc \in {"rejected", "blocked"} => medicines' = medicines
       /\ \A m \in RowSet(medicines') \ RowSet(medicines) :
              m.price > 0 /\ m.quantity \in Nat]_vars

\* a submission has been written: the table holds its row
C23_Witness ==
    /\ call.pc = "written"
    /\ \E k \in 1..Len(medicines) :
           medicines[k].price = ToDecimal2(call.form.price) /\ medicines[k].price > 0

----------------------------------------------------------------------------
(* Properties of handleSearch's logging and failure, checked under         *)
(* SpecSearchPage                                                          *)

\* C24: a search_history row is written only by a handleSearch whose
\* searchMedicines has returned and whose user is signed in, one row at a
\* time; a search that fails and a search without a user write none; and
\* logSearch without a user id inserts nothing, whatever the record store
\* would answer.
C24_HistoryOnlyAfterSignedInSuccess ==
    [][/\ \A o \in LogOutcomes : ~logSearch(NULL, o).inserted
       /\ search_history' # search_history =>
              /\ Len(search_history') = Len(search_history) + 1
              /\ \E i \in 1..Len(reqs) :
                     /\ reqs[i].pc = "log" /\ reqs'[i].pc = "done"
                     /\ reqs[i].user # NULL /\ user # NULL
                     /\ search_history'[Len(search_history')].search_query = reqs[i].query
       /\ \A i \in 1..Len(reqs) :
              (reqs'[i] # reqs[i] /\ (reqs'[i].reported = "failed" \/ reqs[i].user = NULL))
                  => search_history' = search_history]_vars

\* a signed-in search has been logged and another one has failed
C24_Witness ==
    /\ Len(search_history) = 1
    /\ \E i, j \in 1..Len(reqs) :
           /\ reqs[i].log = "ok"
           /\ reqs[j].reported = "failed" /\ reqs[j].log = "none"

\* C30: no step of a handleSearch whose searchMedicines fails (its start,
\* the sending of the query, the catch and finally blocks) changes the
\* results list, and the failure sets loading to FALSE.
C30_FailedSearchKeepsResults ==
    [][\A i \in 1..Len(reqs') :
          /\ i > Len(reqs) => results' = results
          /\ (i <= Len(reqs) /\ reqs[i].pc = "anim" /\ reqs'[i].pc = "fetch")
                 => results' = results
          /\ (i <= Len(reqs) /\ reqs[i].pc = "fetch" /\ reqs'[i].reported = "failed")
                 => results' = results /\ loading' = FALSE]_vars

\* the second search failed while the results of the first one were shown
C30_Witness ==
    /\ Len(reqs) = 2
    /\ reqs[1].reported = "ok" /\ displayed = 1
    /\ reqs[2].reported = "failed" /\ reqs[2].log = "none"
    /\ results # <<>>
    /\ ~loading

----------------------------------------------------------------------------
(* Properties of the auth store and of ProtectedRoute, checked under       *)
(* SpecAuthStore                                                           *)

\* C25: for every protected path, ProtectedRoute renders its children
\* exactly when loading is false, a user is signed in and allowedRoles is not
\* given or holds the profile's role; with loading false it redirects a
\* signed-out visitor to /auth and a signed-in user whose profile is missing
\* or has another role to /.
C25_ProtectedRouteGuards ==
    \A p \in ProtectedPaths :
        LET roles == AllowedRoles(p)
            out   == ProtectedRoute(roles)
        IN /\ out = "children" <=>
                  /\ ~authLoading
                  /\ user # NULL
                  /\ roles = NoAllowedRoles \/ profile \in roles
           /\ (~authLoading /\ user = NULL) => out = "/auth"
           /\ (~authLoading /\ user # NULL /\ roles # NoAllowedRoles /\ profile \notin roles)
                  => out = "/"

\* a signed-in retailer is shown a retailer page, initialize having run
C25_Witness ==
    /\ call.op # "none"
    /\ route = "/retailer/dashboard"
    /\ user # NULL
    /\ ProtectedRoute(AllowedRoles(route)) = "children"

\* C26: whenever the auth store holds no user it holds no profile and no
\* session either.
C26_NoUserNoProfileNoSession ==
    user = NULL => (profile = NoRole /\ session = NULL)

\* C27: after a logout that succeeded, user and session stay null until a
\* login, a register or a SIGNED_IN event.
C27_LoggedOutStaysLoggedOut ==
    [][(call.op = "logout" /\ user = NULL) =>
          \/ user' = NULL /\ session' = NULL
          \/ call'.op \in {"login", "register", "SIGNED_IN"}]_vars

====
